---- MODULE Spec2Model ----
(***************************************************************************)
(* Model of src/server.js: the POST /api/send-broadcast handler of the     *)
(* notification server (validation, pending record, audience resolution,   *)
(* deduplication, batch push, update of the record to sent, response).     *)
(*                                                                         *)
(* JavaScript strings are sequences of one-character strings, so that      *)
(* toLowerCase() and slice(0, -1) are computed and not assumed.            *)
(***************************************************************************)
EXTENDS Integers, Sequences, FiniteSets, TLC

VARIABLES users, doctors, chws, records, req, resolveArg, resolveOut

vars == <<users, doctors, chws, records, req, resolveArg, resolveOut>>

(***************************************************************************)
(* JavaScript values                                                       *)
(***************************************************************************)
\* undefined / null / a field that is missing
Undefined == [kind |-> "undefined", str |-> <<>>, num |-> 0]

Str(s) == [kind |-> "string", str |-> s, num |-> 0]

Num(n) == [kind |-> "number", str |-> <<>>, num |-> n]

\* what `if (v)` and `!v` test
Truthy(v) ==
  \/ v.kind = "string" /\ v.str # <<>>
  \/ v.kind = "number" /\ v.num # 0

LowerChar(c) ==
  CASE c = "A" -> "a"
    [] c = "C" -> "c"
    [] c = "D" -> "d"
    [] c = "H" -> "h"
    [] c = "S" -> "s"
    [] c = "W" -> "w"
    [] OTHER -> c

\* String.prototype.toLowerCase
ToLowerCase(s) == IF s = <<>> THEN <<>> ELSE [i \in 1..Len(s) |-> LowerChar(s[i])]

\* String.prototype.slice(0, -1): the string without its last character
SliceLast(s) == IF Len(s) <= 1 THEN <<>> ELSE SubSeq(s, 1, Len(s) - 1)

Range(s) == {s[i] : i \in 1..Len(s)}

(***************************************************************************)
(* Literals of the source                                                  *)
(***************************************************************************)
sAll == <<"a", "l", "l">>
sChw == <<"c", "h", "w">>
sChws == <<"c", "h", "w", "s">>
sDoctor == <<"d", "o", "c", "t", "o", "r">>
sDoctors == <<"d", "o", "c", "t", "o", "r", "s">>

(***************************************************************************)
(* Audience resolution (server.js 67-189)                                  *)
(***************************************************************************)
\* db.collection(c).where('fcmToken', '!=', null).get()
WhereTokenNotNull(coll) == SelectSeq(coll, LAMBDA d : d.fcmToken.kind # "undefined")

\* snapshot.forEach(doc => { if (token) tokens.push(token) })
PushTokens(tokens, snapshot) ==
  LET kept == SelectSeq(snapshot, LAMBDA d : Truthy(d.fcmToken))
  IN  tokens \o [i \in 1..Len(kept) |-> kept[i].fcmToken]

\* userData.role ? userData.role.toString() : ''
UserRole(d) == IF Truthy(d.role) THEN d.role.str ELSE <<>>

\* the four-way disjunction of lines 170-174
IsMatch(userRole, targetRole) ==
  \/ ToLowerCase(userRole) = targetRole
  \/ ToLowerCase(userRole) = SliceLast(targetRole)
  \/ targetRole = sChws /\ ToLowerCase(userRole) = sChw
  \/ targetRole = sDoctors /\ ToLowerCase(userRole) = sDoctor

\* the documents of the users snapshot that the role filter lets through
MatchedUsers(snapshot, targetRole) ==
  SelectSeq(snapshot, LAMBDA d : Truthy(d.fcmToken) /\ IsMatch(UserRole(d), targetRole))

PushMatching(tokens, snapshot, targetRole) ==
  LET kept == MatchedUsers(snapshot, targetRole)
  IN  tokens \o [i \in 1..Len(kept) |-> kept[i].fcmToken]

\* no deduplication
UniqueTokensKeepsAll(tokens) == tokens

RECURSIVE UniqueTokens(_)
\* [...new Set(tokens)]: first occurrences, in insertion order
UniqueTokens(tokens) ==
  IF tokens = <<>> THEN <<>>
  ELSE LET n == Len(tokens)
           front == UniqueTokens(SubSeq(tokens, 1, n - 1))
       IN  IF tokens[n] \in Range(front) THEN front ELSE Append(front, tokens[n])

IsAll(audience) == audience = Str(sAll)

\* the 'all' branch without its doctors query
TokensForAllNoDoctors ==
  PushTokens(PushTokens(<<>>, WhereTokenNotNull(users)), WhereTokenNotNull(chws))

\* the candidate list of the audience === 'all' branch
TokensForAll ==
  PushTokens(PushTokens(PushTokens(<<>>, WhereTokenNotNull(users)),
                        WhereTokenNotNull(doctors)),
             WhereTokenNotNull(chws))

QueriesChws(targetRole) == targetRole = sChws \/ targetRole = sChw

QueriesDoctors(targetRole) == targetRole = sDoctors \/ targetRole = sDoctor

\* the candidate list of the role branch
TokensForRole(targetRole) ==
  LET t1 == IF QueriesChws(targetRole)
              THEN PushTokens(<<>>, WhereTokenNotNull(chws)) ELSE <<>>
      t2 == IF QueriesDoctors(targetRole)
              THEN PushTokens(t1, WhereTokenNotNull(doctors)) ELSE t1
  IN  PushMatching(t2, WhereTokenNotNull(users), targetRole)

\* the candidate list for a string selector
ResolveTokens(audience) ==
  IF IsAll(audience) THEN TokensForAll ELSE TokensForRole(ToLowerCase(audience.str))

(***************************************************************************)
(* Data the model draws from                                               *)
(***************************************************************************)
MaxUsers == 1
MaxDoctors == 1
MaxChws == 1

tokA == Str(<<"t1">>)
tokB == Str(<<"t2">>)

\* a missing/null token, an empty one, two device tokens
TokenList == <<Undefined, Str(<<>>), tokA, tokB>>

RoleValues ==
  { Undefined, Str(<<>>), Str(<<"C", "H", "W">>), Str(sChws), Str(<<"c", "h">>),
    Str(sDoctor) }

Selectors ==
  { Str(sAll), Str(<<"C", "H", "W", "S">>), Str(sChw), Str(<<"C", "h", "w">>),
    Str(sDoctors), Str(sDoctor), Str(<<"D", "o", "c", "t", "o", "r", "s">>),
    Str(<<"A", "l", "l">>), Str(<<"a">>) }

TokenRank(t) == CHOOSE i \in 1..Len(TokenList) : TokenList[i] = t

\* the order in which an inequality query on fcmToken returns documents
ByToken(coll) ==
  \A i \in 1..Len(coll) - 1 : TokenRank(coll[i].fcmToken) <= TokenRank(coll[i + 1].fcmToken)

UserDocs == [role : RoleValues, fcmToken : Range(TokenList)]

PartitionDocs == [fcmToken : Range(TokenList)]

Collections(docs, n) == {c \in UNION {[1..k -> docs] : k \in 0..n} : ByToken(c)}

(***************************************************************************)
(* ResolveSpec: the resolver applied to any selector over any partitions   *)
(***************************************************************************)
NotResolved == [tokens |-> <<>>, uniqueTokens |-> <<>>, matched |-> <<>>, done |-> FALSE]

InitResolve ==
  /\ users \in Collections(UserDocs, MaxUsers)
  /\ doctors \in Collections(PartitionDocs, MaxDoctors)
  /\ chws \in Collections(PartitionDocs, MaxChws)
  /\ records = <<>>
  /\ req = <<>>
  /\ resolveArg = Undefined
  /\ resolveOut = NotResolved

\* lines 68-189 for one selector
Resolve(audience) ==
  /\ ~resolveOut.done
  /\ resolveArg' = audience
  /\ resolveOut' =
       [tokens |-> ResolveTokens(audience),
        uniqueTokens |-> UniqueTokens(ResolveTokens(audience)),
        matched |-> IF IsAll(audience) THEN <<>>
                    ELSE MatchedUsers(WhereTokenNotNull(users), ToLowerCase(audience.str)),
        done |-> TRUE]
  /\ UNCHANGED <<users, doctors, chws, records, req>>

NextResolve == \E audience \in Selectors : Resolve(audience)

ResolveSpec == InitResolve /\ [][NextResolve]_vars

(***************************************************************************)
(* Spec: concurrent POST /api/send-broadcast requests (server.js 43-263)   *)
(***************************************************************************)
MaxReq == 2

Requests == 1..MaxReq

NoResponse ==
  [status |-> 0, error |-> "", success |-> FALSE, count |-> 0, successCount |-> 0,
   failureCount |-> 0, broadcastId |-> 0]

\* a handler that has not been entered: its locals, its response, and what it has
\* asked of the store (queried) and of the push service (fcmCalls, dispatch)
Idle ==
  [pc |-> "idle", message |-> Undefined, audience |-> Undefined, adminId |-> Undefined,
   broadcastRef |-> 0, targetRole |-> <<>>, tokens |-> <<>>, uniqueTokens |-> <<>>,
   successCount |-> 0, failureCount |-> 0, response |-> NoResponse,
   queried |-> <<>>, resolved |-> FALSE, fcmCalls |-> <<>>, dispatch |-> "none"]

NoRequests == [r \in Requests |-> Idle]

\* request bodies: each field missing, empty or present; audience also a non-string
FieldValues == {Undefined, Str(<<>>), Str(<<"x">>)}

AudienceValues ==
  {Undefined, Str(<<>>), Str(sAll), Str(<<"D", "o", "c", "t", "o", "r", "s">>),
   Str(<<"C", "H", "W", "S">>), Num(7)}

\* two doctor tokens, one of them also on a general user with role doctor
ExampleStore ==
  [users |-> <<[role |-> Str(sDoctor), fcmToken |-> tokA]>>,
   doctors |-> <<[fcmToken |-> tokA], [fcmToken |-> tokB]>>,
   chws |-> <<>>]

\* null and empty tokens, a token twice in one partition, users with and without role
MixedStore ==
  [users |-> <<[role |-> Str(sDoctor), fcmToken |-> Undefined],
               [role |-> Str(<<"C", "H", "W">>), fcmToken |-> tokA],
               [role |-> Undefined, fcmToken |-> tokB]>>,
   doctors |-> <<[fcmToken |-> Str(<<>>)]>>,
   chws |-> <<[fcmToken |-> tokA], [fcmToken |-> tokA]>>]

EmptyStore == [users |-> <<>>, doctors |-> <<>>, chws |-> <<>>]

Stores == {ExampleStore, MixedStore, EmptyStore}

Init ==
  /\ \E store \in Stores :
       /\ users = store.users
       /\ doctors = store.doctors
       /\ chws = store.chws
  /\ records = <<>>
  /\ req = NoRequests
  /\ resolveArg = Undefined
  /\ resolveOut = NotResolved

Store == <<users, doctors, chws>>

Resolver == <<resolveArg, resolveOut>>

\* a validation that forgets adminId
InvalidIgnoresAdminId(message, audience, adminId) ==
  ~Truthy(message) \/ ~Truthy(audience)

\* if (!message || !audience || !adminId)
Invalid(message, audience, adminId) ==
  ~Truthy(message) \/ ~Truthy(audience) \/ ~Truthy(adminId)

\* res.status(code).json({ error })
ErrorResponse(code, error) == [NoResponse EXCEPT !.status = code, !.error = error]

\* the outer catch: res.status(500).json({ error: error.message })
Fail500(r, error) ==
  req' = [req EXCEPT ![r].pc = "done", ![r].response = ErrorResponse(500, error)]

\* the handler resolving the audience before it writes the pending record
ReceiveQueriesFirst(r, message, audience, adminId) ==
  /\ req[r].pc = "idle"
  /\ IF r = 1 THEN TRUE ELSE req[r - 1].pc # "idle"
  /\ IF Invalid(message, audience, adminId)
       THEN req' = [req EXCEPT ![r].pc = "done",
                               ![r].response = ErrorResponse(400, "missing fields")]
       ELSE req' = [req EXCEPT ![r].pc = IF IsAll(audience) THEN "allUsers" ELSE "add",
                               ![r].message = message,
                               ![r].audience = audience, ![r].adminId = adminId]
  /\ UNCHANGED <<Store, records, Resolver>>

\* app.post('/api/send-broadcast'): the handler up to its first await
Receive(r, message, audience, adminId) ==
  /\ req[r].pc = "idle"
  /\ IF r = 1 THEN TRUE ELSE req[r - 1].pc # "idle"
  /\ IF Invalid(message, audience, adminId)
       THEN req' = [req EXCEPT ![r].pc = "done",
                               ![r].response = ErrorResponse(400, "missing fields")]
       ELSE req' = [req EXCEPT ![r].pc = "add", ![r].message = message,
                               ![r].audience = audience, ![r].adminId = adminId]
  /\ UNCHANGED <<Store, records, Resolver>>

\* the first query of the role branch for a target role
FirstRoleQuery(targetRole) ==
  IF QueriesChws(targetRole) THEN "roleChws"
  ELSE IF QueriesDoctors(targetRole) THEN "roleDoctors" ELSE "roleUsers"

\* the id the store gives the record a request adds: opaque and fresh, here the
\* number of the request
NewId(r) == r

\* db.collection('broadcast_notifications').add(...) resolves; the handler runs on
\* to the first partition query, or to the TypeError of audience.toLowerCase
AddRecord(r) ==
  /\ req[r].pc = "add"
  /\ records' = (NewId(r) :>
                   [message |-> req[r].message, audience |-> req[r].audience,
                    sentBy |-> req[r].adminId, status |-> "pending",
                    recipientCount |-> 0, successCount |-> 0, failureCount |-> 0])
                 @@ records
  /\ LET id == NewId(r)
         audience == req[r].audience
     IN  IF IsAll(audience)
           THEN req' = [req EXCEPT ![r].pc = "allUsers", ![r].broadcastRef = id]
         ELSE IF audience.kind # "string"
           THEN req' = [req EXCEPT ![r].pc = "done", ![r].broadcastRef = id,
                                   ![r].response = ErrorResponse(500, "TypeError")]
         ELSE req' = [req EXCEPT ![r].pc = FirstRoleQuery(ToLowerCase(audience.str)),
                                 ![r].broadcastRef = id,
                                 ![r].targetRole = ToLowerCase(audience.str)]
  /\ UNCHANGED <<Store, Resolver>>

\* the add rejects
AddFails(r) ==
  /\ req[r].pc = "add"
  /\ Fail500(r, "add rejected")
  /\ UNCHANGED <<Store, records, Resolver>>

\* the batch call made whatever the number of tokens
AfterResolveAlwaysSends(r, tokens, coll) ==
  req' = [req EXCEPT ![r].tokens = tokens,
                     ![r].uniqueTokens = UniqueTokens(tokens),
                     ![r].queried = Append(@, coll),
                     ![r].resolved = TRUE,
                     ![r].pc = "send",
                     ![r].dispatch = "called",
                     ![r].fcmCalls = Append(@, UniqueTokens(tokens))]

\* lines 187-233 up to the next await: dedup, then the batch call or its skip
AfterResolve(r, tokens, coll) ==
  LET uniqueTokens == UniqueTokens(tokens)
  IN  req' = [req EXCEPT ![r].tokens = tokens,
                         ![r].uniqueTokens = uniqueTokens,
                         ![r].queried = Append(@, coll),
                         ![r].resolved = TRUE,
                         ![r].pc = IF Len(uniqueTokens) > 0 THEN "send" ELSE "update",
                         ![r].dispatch = IF Len(uniqueTokens) > 0 THEN "called" ELSE "skipped",
                         ![r].fcmCalls = IF Len(uniqueTokens) > 0
                                           THEN Append(@, uniqueTokens) ELSE @]

QueryAllUsers(r) ==
  /\ req[r].pc = "allUsers"
  /\ req' = [req EXCEPT ![r].tokens = PushTokens(@, WhereTokenNotNull(users)),
                        ![r].queried = Append(@, "users"),
                        ![r].pc = "allDoctors"]
  /\ UNCHANGED <<Store, records, Resolver>>

QueryAllDoctors(r) ==
  /\ req[r].pc = "allDoctors"
  /\ req' = [req EXCEPT ![r].tokens = PushTokens(@, WhereTokenNotNull(doctors)),
                        ![r].queried = Append(@, "doctors"),
                        ![r].pc = "allChws"]
  /\ UNCHANGED <<Store, records, Resolver>>

QueryAllChws(r) ==
  /\ req[r].pc = "allChws"
  /\ AfterResolve(r, PushTokens(req[r].tokens, WhereTokenNotNull(chws)), "chws")
  /\ UNCHANGED <<Store, records, Resolver>>

QueryRoleChws(r) ==
  /\ req[r].pc = "roleChws"
  /\ req' = [req EXCEPT ![r].tokens = PushTokens(@, WhereTokenNotNull(chws)),
                        ![r].queried = Append(@, "chws"),
                        ![r].pc = IF QueriesDoctors(req[r].targetRole)
                                    THEN "roleDoctors" ELSE "roleUsers"]
  /\ UNCHANGED <<Store, records, Resolver>>

QueryRoleDoctors(r) ==
  /\ req[r].pc = "roleDoctors"
  /\ req' = [req EXCEPT ![r].tokens = PushTokens(@, WhereTokenNotNull(doctors)),
                        ![r].queried = Append(@, "doctors"),
                        ![r].pc = "roleUsers"]
  /\ UNCHANGED <<Store, records, Resolver>>

QueryRoleUsers(r) ==
  /\ req[r].pc = "roleUsers"
  /\ AfterResolve(r, PushMatching(req[r].tokens, WhereTokenNotNull(users),
                                  req[r].targetRole), "users")
  /\ UNCHANGED <<Store, records, Resolver>>

QueryPcs == {"allUsers", "allDoctors", "allChws", "roleChws", "roleDoctors", "roleUsers"}

\* a partition query rejects: none of them is guarded, the outer catch answers
QueryFails(r) ==
  /\ req[r].pc \in QueryPcs
  /\ Fail500(r, "query rejected")
  /\ UNCHANGED <<Store, records, Resolver>>

\* sendEachForMulticast resolves with its tally
SendReturns(r, ok) ==
  /\ req[r].pc = "send"
  /\ ok \in 0..Len(req[r].uniqueTokens)
  /\ req' = [req EXCEPT ![r].successCount = ok,
                        ![r].failureCount = Len(req[r].uniqueTokens) - ok,
                        ![r].dispatch = "returned",
                        ![r].pc = "update"]
  /\ UNCHANGED <<Store, records, Resolver>>

\* the rejection of the batch call left to the outer catch
SendThrowsPropagates(r) ==
  /\ req[r].pc = "send"
  /\ req' = [req EXCEPT ![r].dispatch = "threw", ![r].pc = "done",
                        ![r].response = ErrorResponse(500, "fcm rejected")]
  /\ UNCHANGED <<Store, records, Resolver>>

\* sendEachForMulticast rejects: catch (fcmError) logs and goes on
SendThrows(r) ==
  /\ req[r].pc = "send"
  /\ req' = [req EXCEPT ![r].dispatch = "threw", ![r].pc = "update"]
  /\ UNCHANGED <<Store, records, Resolver>>

\* the update not awaiting the batch call
UpdateRecordBeforeSendEnds(r) ==
  /\ req[r].pc \in {"send", "update"}
  /\ records' = [records EXCEPT ![req[r].broadcastRef] =
                   [@ EXCEPT !.status = "sent",
                             !.recipientCount = Len(req[r].uniqueTokens),
                             !.successCount = req[r].successCount,
                             !.failureCount = req[r].failureCount]]
  /\ req' = [req EXCEPT ![r].pc = "done",
                        ![r].response =
                          [status |-> 200, error |-> "", success |-> TRUE,
                           count |-> Len(req[r].uniqueTokens),
                           successCount |-> req[r].successCount,
                           failureCount |-> req[r].failureCount,
                           broadcastId |-> req[r].broadcastRef]]
  /\ UNCHANGED <<Store, Resolver>>

\* broadcastRef.update(...) resolves, then res.json(...)
UpdateRecord(r) ==
  /\ req[r].pc = "update"
  /\ records' = [records EXCEPT ![req[r].broadcastRef] =
                   [@ EXCEPT !.status = "sent",
                             !.recipientCount = Len(req[r].uniqueTokens),
                             !.successCount = req[r].successCount,
                             !.failureCount = req[r].failureCount]]
  /\ req' = [req EXCEPT ![r].pc = "done",
                        ![r].response =
                          [status |-> 200, error |-> "", success |-> TRUE,
                           count |-> Len(req[r].uniqueTokens),
                           successCount |-> req[r].successCount,
                           failureCount |-> req[r].failureCount,
                           broadcastId |-> req[r].broadcastRef]]
  /\ UNCHANGED <<Store, Resolver>>

\* the update rejects
UpdateFails(r) ==
  /\ req[r].pc = "update"
  /\ Fail500(r, "update rejected")
  /\ UNCHANGED <<Store, records, Resolver>>

Next ==
  \E r \in Requests :
    \/ \E message \in FieldValues, audience \in AudienceValues, adminId \in FieldValues :
         Receive(r, message, audience, adminId)
    \/ AddRecord(r)
    \/ AddFails(r)
    \/ QueryAllUsers(r)
    \/ QueryAllDoctors(r)
    \/ QueryAllChws(r)
    \/ QueryRoleChws(r)
    \/ QueryRoleDoctors(r)
    \/ QueryRoleUsers(r)
    \/ QueryFails(r)
    \/ \E ok \in 0..Len(req[r].uniqueTokens) : SendReturns(r, ok)
    \/ SendThrows(r)
    \/ UpdateRecord(r)
    \/ UpdateFails(r)

Spec == Init /\ [][Next]_vars

(***************************************************************************)
(* Properties                                                              *)
(***************************************************************************)
NoDuplicates(s) == \A i, j \in 1..Len(s) : i # j => s[i] # s[j]

\* the batch call of request r has returned, has thrown, or was skipped
DispatchFinished(r) == req[r].dispatch \in {"returned", "threw", "skipped"}

\* request r has its record, and the record is marked sent
RecordSent(r) ==
  /\ req[r].broadcastRef \in DOMAIN records
  /\ records[req[r].broadcastRef].status = "sent"

\* request r was answered 200 with the tally of its record
AnsweredSuccess(r) ==
  /\ req[r].response.status = 200
  /\ req[r].response.success
  /\ req[r].response.count = Len(req[r].uniqueTokens)
  /\ req[r].response.successCount = req[r].successCount
  /\ req[r].response.failureCount = req[r].failureCount
  /\ req[r].response.broadcastId = req[r].broadcastRef
  /\ RecordSent(r)
  /\ records[req[r].broadcastRef].recipientCount = Len(req[r].uniqueTokens)
  /\ records[req[r].broadcastRef].successCount = req[r].successCount
  /\ records[req[r].broadcastRef].failureCount = req[r].failureCount

\* the only 500 left to a request whose dispatch is over: its update was rejected
UpdateRejected(r) ==
  req[r].response.status = 500 /\ req[r].response.error = "update rejected"

MissingOrEmpty(v) == v = Undefined \/ v = Str(<<>>)

\* request r was answered 400 and has touched neither the store nor the push service
Rejected(r) ==
  /\ req[r].pc = "done"
  /\ req[r].response.status = 400
  /\ req[r].broadcastRef = 0
  /\ req[r].queried = <<>>
  /\ req[r].fcmCalls = <<>>
  /\ req[r].dispatch = "none"

\* the bodies in which a required field is missing or empty
IncompleteBodies ==
  {b \in [message : FieldValues, audience : AudienceValues, adminId : FieldValues] :
     MissingOrEmpty(b.message) \/ MissingOrEmpty(b.audience) \/ MissingOrEmpty(b.adminId)}

C1_Step ==
  \A r \in Requests :
    /\ req[r].pc = "idle" /\ ~(Rejected(r)' /\ records' = records) =>
         \A b \in IncompleteBodies : ~Receive(r, b.message, b.audience, b.adminId)
    /\ Rejected(r) => Rejected(r)'

\* C1: a request in which message, audience or adminId is missing or empty is
\* answered 400 in the step that receives it, and neither then nor later creates a
\* record, queries a partition or calls the push service; the stored records are
\* unchanged
C1_InvalidRequestHasNoSideEffect == [][C1_Step]_vars

C1_Witness ==
  \E r, q \in Requests : Rejected(r) /\ req[q].pc = "update" /\ DOMAIN records = {q}

\* C2: when a request that created its record has ended, the record is sent (no
\* created record is left pending by a handler that has returned)
C2_CreatedRecordIsSentWhenRequestEnds ==
  \A r \in Requests :
    req[r].pc = "done" /\ req[r].broadcastRef # 0 => RecordSent(r)

C3_Step ==
  /\ DOMAIN records \subseteq DOMAIN records'
  /\ \A id \in DOMAIN records' : records'[id].status \in {"pending", "sent"}
  /\ \A id \in DOMAIN records' \ DOMAIN records : records'[id].status = "pending"
  /\ \A id \in DOMAIN records :
       /\ records[id].status = "sent" => records'[id] = records[id]
       /\ records'[id].status # records[id].status =>
            /\ records[id].status = "pending"
            /\ records'[id].status = "sent"
            /\ \E r \in Requests : req[r].broadcastRef = id
            /\ \A r \in Requests : req[r].broadcastRef = id => DispatchFinished(r)

\* C3: under any interleaving of requests a record is created pending, its status
\* changes only from pending to sent, only once, only when the dispatch of the
\* request that owns it is over (returned, threw or skipped), a sent record never
\* changes again, and no record is ever removed
C3_StatusOnlyMovesForward == [][C3_Step]_vars

C3_Witness ==
  \E r, q \in Requests :
    /\ RecordSent(r) /\ req[r].dispatch = "returned"
    /\ req[q].broadcastRef \in DOMAIN records
    /\ records[req[q].broadcastRef].status = "pending"
    /\ req[q].dispatch = "called"

\* C4 as stated: a request's pending record exists only once its audience has
\* been resolved
C4_RecordOnlyAfterResolution ==
  \A r \in Requests : req[r].broadcastRef # 0 => req[r].resolved

\* C4 as amended: the order is pending record, audience resolution, dispatch,
\* update to sent, response: a request queries a partition only once its pending
\* record is written, dispatches only once resolved, has its record marked sent
\* only once dispatch is over, and is answered success only once the record is sent
C4_RecordBeforeResolution ==
  \A r \in Requests :
    /\ req[r].queried # <<>> => req[r].broadcastRef \in DOMAIN records
    /\ req[r].resolved => req[r].queried # <<>>
    /\ req[r].dispatch # "none" => req[r].resolved
    /\ RecordSent(r) => DispatchFinished(r)
    /\ req[r].response.status = 200 => RecordSent(r)

C4_Witness ==
  \E r, q \in Requests :
    /\ req[r].response.status = 200 /\ req[r].dispatch = "returned"
    /\ req[q].broadcastRef # 0 /\ req[q].queried = <<>> /\ req[q].pc \in QueryPcs

ChwSelectors == {Str(<<"C", "H", "W", "S">>), Str(sChw), Str(<<"C", "h", "w">>)}

\* C5: over the same partitions the selectors "CHWS", "chw" and "Chw" resolve to
\* the same set of tokens
C5_ChwVariantsResolveAlike ==
  resolveOut.done /\ resolveArg \in ChwSelectors =>
    \A s \in ChwSelectors :
      Range(resolveOut.uniqueTokens) = Range(UniqueTokens(ResolveTokens(s)))

\* C6: over the same partitions the set resolved for "all" contains the set
\* resolved for any other selector
C6_AllIsSuperset ==
  resolveOut.done /\ ~IsAll(resolveArg) =>
    Range(resolveOut.uniqueTokens) \subseteq Range(UniqueTokens(ResolveTokens(Str(sAll))))

C6_Witness ==
  /\ resolveOut.done
  /\ resolveArg = Str(sDoctors)
  /\ Range(resolveOut.uniqueTokens) = {tokA}
  /\ Range(UniqueTokens(ResolveTokens(Str(sAll)))) = {tokA, tokB}

\* the store of the spec's example, a request for "doctors" resolved over it
ExampleResolved(r) ==
  /\ <<users, doctors, chws>> =
       <<ExampleStore.users, ExampleStore.doctors, ExampleStore.chws>>
  /\ req[r].resolved
  /\ req[r].targetRole = sDoctors

\* C7: the token list handed to the push call holds each token once, equals as a
\* set the candidates collected from the partitions, is no longer than the
\* candidate list, and its length is the recipientCount stored and the count
\* returned; in the example (two doctor tokens, one also on a matching user) it
\* has 2 entries for 3 candidates
C7_UniqueTokensAreDeduplicated ==
  \A r \in Requests :
    /\ req[r].resolved =>
         /\ req[r].tokens = ResolveTokens(req[r].audience)
         /\ NoDuplicates(req[r].uniqueTokens)
         /\ Range(req[r].uniqueTokens) = Range(req[r].tokens)
         /\ Len(req[r].uniqueTokens) <= Len(req[r].tokens)
    /\ \A i \in 1..Len(req[r].fcmCalls) :
         /\ NoDuplicates(req[r].fcmCalls[i])
         /\ Range(req[r].fcmCalls[i]) = Range(req[r].tokens)
    /\ RecordSent(r) =>
         records[req[r].broadcastRef].recipientCount = Cardinality(Range(req[r].tokens))
    /\ req[r].response.status = 200 =>
         req[r].response.count = Cardinality(Range(req[r].tokens))
    /\ ExampleResolved(r) => Len(req[r].tokens) = 3 /\ Len(req[r].uniqueTokens) = 2

C7_Witness ==
  \E r \in Requests :
    /\ ExampleResolved(r)
    /\ Len(req[r].tokens) = 3
    /\ req[r].fcmCalls = <<(<<tokA, tokB>>)>>
    /\ req[r].response.status = 200
    /\ req[r].response.count = 2

\* C8: when the batch call throws, the request goes on to update its record:
\* both counts are 0, and it ends answered success:true with its record sent,
\* recipientCount the number of unique tokens and counts 0 (a 500 can then only
\* come from the rejection of that update, never from the push error)
C8_PushFailureIsSwallowed ==
  \A r \in Requests :
    req[r].dispatch = "threw" =>
      /\ req[r].pc \in {"update", "done"}
      /\ Len(req[r].uniqueTokens) > 0
      /\ req[r].successCount = 0
      /\ req[r].failureCount = 0
      /\ req[r].pc = "done" =>
           \/ AnsweredSuccess(r) /\ req[r].response.successCount = 0
                                 /\ req[r].response.failureCount = 0
           \/ UpdateRejected(r)

C8_Witness ==
  \E r \in Requests :
    /\ req[r].dispatch = "threw"
    /\ req[r].pc = "done"
    /\ AnsweredSuccess(r)
    /\ req[r].response.count = 2

\* C9: when the unique token set is empty the push service is never called, both
\* counts are 0, and the request ends as a success with its record sent and
\* recipientCount 0 (a 500 can then only come from the rejection of the update)
C9_EmptySetSkipsPush ==
  \A r \in Requests :
    req[r].resolved /\ req[r].uniqueTokens = <<>> =>
      /\ req[r].fcmCalls = <<>>
      /\ req[r].dispatch = "skipped"
      /\ req[r].pc \in {"update", "done"}
      /\ req[r].successCount = 0
      /\ req[r].failureCount = 0
      /\ req[r].pc = "done" =>
           \/ AnsweredSuccess(r) /\ req[r].response.count = 0
                                 /\ records[req[r].broadcastRef].recipientCount = 0
           \/ UpdateRejected(r)

C9_Witness ==
  \E r \in Requests :
    /\ req[r].resolved
    /\ req[r].uniqueTokens = <<>>
    /\ req[r].pc = "done"
    /\ AnsweredSuccess(r)
    /\ users # <<>>

\* C10: for a selector other than "all", no general user whose role is missing
\* or empty passes the role filter
C10_RolelessUserNeverMatches ==
  resolveOut.done /\ ~IsAll(resolveArg) =>
    \A i \in 1..Len(resolveOut.matched) : Truthy(resolveOut.matched[i].role)

====
